---------------------------- MODULE Spec2Model ----------------------------
(***************************************************************************)
(* Model of @umituz/react-native-tanstack.                                 *)
(*                                                                         *)
(* Spec: the optimistic-update hook (useOptimisticUpdate) running against  *)
(* the query engine's cache.  The engine is seen through the four calls    *)
(* the hook makes on it: cancelQueries, getQueryData, setQueryData,        *)
(* invalidateQueries.  Each mutation instance walks through the lifecycle  *)
(* callbacks the hook installs: onMutate (split at its await), the remote  *)
(* write, onError, onSettled.  Fetches of the engine run concurrently      *)
(* with the mutations.                                                     *)
(*                                                                         *)
(* The library functions outside the hook's lifecycle have specifications  *)
(* of their own, over the variable libCall:                                *)
(*   OnErrorSpec    the hook's onError with the caller's onError           *)
(*   PersisterSpec  createPersister: serialize and deserialize             *)
(*   StorageSpec    clearPersistedCache and getPersistedCacheSize          *)
(*   KeySpec        the query key builders and matchQueryKey               *)
(*   ConfigSpec     getCacheStrategy and createQueryClient                 *)
(*   RetrySpec      createConditionalRetry, createQuotaAwareRetry and an   *)
(*                  operation retried under them; RetryFairSpec adds that  *)
(*                  every run settles and every failure is handled         *)
(*   PaginationSpec useOffsetPagination against a server's pages           *)
(*   CallbackSpec   the hook's onError and onSettled with the caller's     *)
(*                                                                         *)
(* CancelRejectsSpec is Spec with the rejection of the awaited             *)
(* cancelQueries promise as one more way for onMutate to fail.             *)
(***************************************************************************)
EXTENDS Integers, Sequences, FiniteSets, TLC

\* ------------------------------------------------------------- bounds
\* Number of mutation instances (calls of mutate) in a run.
NumMutations == 2
\* Cached data are the numbers 0..MaxData.
MaxData == 2
\* The variables of a mutation are a delta in 1..MaxDelta.
MaxDelta == 1
\* The engine starts at most MaxFetches fetches in a run.
MaxFetches == 2

\* ------------------------------------------------------------- values
Mutations == 1..NumMutations
Data == 0..MaxData
Deltas == 1..MaxDelta

\* JavaScript's undefined as a datum: what getQueryData returns for a key with
\* no data.  It is no element of Data.
undefined == -1
\* A segment of a query key is a JavaScript value.  A primitive has no identity
\* (ref 0) and is its type and value; an object has the identity of its
\* construction (ref > 0) beside its attributes.  Two segments are the same
\* record exactly when === holds of the values.
String(s) == [type |-> "string", ref |-> 0, val |-> s]
Object(r, attributes) == [type |-> "object", ref |-> r, val |-> attributes]
Number(s) == [type |-> "number", ref |-> 0, val |-> s]
\* JavaScript's undefined as a segment of a key pattern.
undefinedSegment == [type |-> "undefined", ref |-> 0, val |-> ""]

\* The query keys of the run: a resource key and a key below it.
PostsKey == <<String("posts")>>
PostsDetailKey == <<String("posts"), String("detail")>>
Keys == {PostsKey, PostsDetailKey}

\* A mutation whose onMutate threw has no context (context is undefined).
NoContext == [none |-> TRUE]

\* ------------------------------------------------------------- key matching
\* a === b: the same primitive or the same object; NaN equals nothing, itself
\* included.
StrictEquals(a, b) == a = b /\ a # Number("NaN")

\* Mutant: a pattern matches keys of its own length only.
matchQueryKeySameLength(queryKey, pattern) ==
    IF Len(pattern) # Len(queryKey) THEN FALSE
    ELSE \A index \in 1..Len(pattern) :
            \/ pattern[index] = undefinedSegment
            \/ StrictEquals(queryKey[index], pattern[index])

\* matchQueryKey(queryKey, pattern): the pattern is no longer than the key and
\* every pattern position is undefined or strictly equal to the key's segment.
matchQueryKey(queryKey, pattern) ==
    IF Len(pattern) > Len(queryKey) THEN FALSE
    ELSE \A index \in 1..Len(pattern) :
            \/ pattern[index] = undefinedSegment
            \/ StrictEquals(queryKey[index], pattern[index])

\* Mutant: a filter that addresses every query (the key is not passed on).
QueryFilterAll(k, queryKey) == TRUE

\* The queries a filter { queryKey } addresses: invalidate(['posts']) addresses
\* "all posts queries", every query whose key starts with the given key.
QueryFilter(k, queryKey) == matchQueryKey(k, queryKey)

\* ------------------------------------------------------------- engine calls
\* Mutant: the cancellation is left out.
cancelQueriesNoop(f, queryKey) == f

\* queryClient.cancelQueries({ queryKey }): no addressed query stays in flight.
cancelQueries(f, queryKey) ==
    [k \in Keys |-> IF QueryFilter(k, queryKey) THEN FALSE ELSE f[k]]

\* Mutant: the snapshot is read at the resource key instead of queryKey.
getQueryDataWrongKey(d, queryKey) == d[PostsKey]

\* queryClient.getQueryData(queryKey): the data of exactly this key.
getQueryData(d, queryKey) == d[queryKey]

\* queryClient.setQueryData(queryKey, data): writes exactly this key.
setQueryData(d, queryKey, data) == [d EXCEPT ![queryKey] = data]

\* queryClient.invalidateQueries({ queryKey }): marks every addressed query.
invalidateQueries(inv, queryKey) ==
    [k \in Keys |-> IF QueryFilter(k, queryKey) THEN TRUE ELSE inv[k]]

\* ------------------------------------------------------------- hook decisions
\* updater(oldData, variables) of the documented example: add the delta.
updater(oldData, variables) == (oldData + variables) % (MaxData + 1)

\* Mutants: the test of previousData inverted, and left out.
ShouldApplyInverted(previousData) == previousData = undefined
ShouldApplyAlways(previousData) == TRUE

\* onMutate: "if (previousData !== undefined)".
ShouldApply(previousData) == previousData # undefined

\* Mutant: onError never restores the snapshot.
ShouldRollbackNever(ctx) == FALSE

\* onError: "if (context?.previousData !== undefined)".
ShouldRollback(ctx) ==
    IF ctx = NoContext THEN FALSE ELSE ctx.previousData # undefined

\* Mutants: the invalidation ignores the error, ignores both conditions, and
\* happens on the error branch only.
ShouldInvalidateIgnoringError(invalidateOnSuccess, err) == invalidateOnSuccess
ShouldInvalidateUnconditional(invalidateOnSuccess, err) == TRUE
ShouldInvalidateOnError(invalidateOnSuccess, err) == invalidateOnSuccess /\ err

\* Mutant: the invalidation ignores the invalidateOnSuccess option.
ShouldInvalidateIgnoringOption(invalidateOnSuccess, err) == ~err

\* onSettled: "if (invalidateOnSuccess && !error)".
ShouldInvalidate(invalidateOnSuccess, err) == invalidateOnSuccess /\ ~err

\* ------------------------------------------------------------- state
VARIABLES
    queryData,      \* the cache: key -> data or undefined
    fetching,       \* key -> a fetch of this query is in flight
    isInvalidated,  \* key -> the query is marked invalidated
    pc,             \* mutation -> where it stands in its lifecycle
    config,         \* mutation -> queryKey, invalidateOnSuccess, variables
    context,        \* mutation -> what onMutate returned
    error,          \* mutation -> the error argument of onError/onSettled is set
    log,            \* mutation -> the calls it made, in order (history)
    fetches,        \* the number of fetches the engine has started
    last,           \* the last step taken and the state it started from
                    \*        (history)
    seenByBegin,    \* key -> the fetch in flight was in flight when an
                    \*        onMutate addressing the key was called (history)
    libCall         \* the call of a library function outside the hook's
                    \* lifecycle: its arguments, and its outcome once it
                    \* has returned; NoLibCall while the hook runs

hookVars == <<queryData, fetching, isInvalidated, pc, config, context, error,
              log, fetches, last, seenByBegin>>

vars == <<queryData, fetching, isInvalidated, pc, config, context, error, log,
          fetches, last, seenByBegin, libCall>>

NoLibCall == [fn |-> "none"]

Configs == [queryKey : Keys, invalidateOnSuccess : BOOLEAN, variables : Deltas]

IdleConfig == [queryKey |-> PostsKey, invalidateOnSuccess |-> TRUE,
               variables |-> 1]

\* The record of a step: the action, who took it (a mutation, or 0 for the
\* engine), the key it addressed, and the state it was taken in.
EngineStep(op, k) ==
    [op |-> op, actor |-> 0, key |-> k,
     queryData |-> queryData, fetching |-> fetching,
     isInvalidated |-> isInvalidated, seenByBegin |-> seenByBegin,
     pc |-> "idle", error |-> FALSE]

HookStep(op, m, k) ==
    [op |-> op, actor |-> m, key |-> k,
     queryData |-> queryData, fetching |-> fetching,
     isInvalidated |-> isInvalidated, seenByBegin |-> seenByBegin,
     pc |-> pc[m], error |-> error[m]]

\* No mutation has been started and the cache is empty.
HookInit ==
    /\ queryData = [k \in Keys |-> undefined]
    /\ fetching = [k \in Keys |-> FALSE]
    /\ isInvalidated = [k \in Keys |-> FALSE]
    /\ pc = [m \in Mutations |-> "idle"]
    /\ config = [m \in Mutations |-> IdleConfig]
    /\ context = [m \in Mutations |-> NoContext]
    /\ error = [m \in Mutations |-> FALSE]
    /\ log = [m \in Mutations |-> <<>>]
    /\ seenByBegin = [k \in Keys |-> FALSE]
    /\ fetches = 0
    /\ last = [op |-> "Init", actor |-> 0, key |-> <<>>,
               queryData |-> [k \in Keys |-> undefined],
               fetching |-> [k \in Keys |-> FALSE],
               isInvalidated |-> [k \in Keys |-> FALSE],
               seenByBegin |-> [k \in Keys |-> FALSE],
               pc |-> "idle", error |-> FALSE]

Init ==
    /\ HookInit
    /\ libCall = NoLibCall

\* ------------------------------------------------------------- engine fetches
\* The engine starts a fetch of a query (a mount, a refetch after invalidation).
FetchStart(k) ==
    /\ ~fetching[k]
    /\ fetches < MaxFetches
    /\ fetches' = fetches + 1
    /\ fetching' = [fetching EXCEPT ![k] = TRUE]
    /\ seenByBegin' = [seenByBegin EXCEPT ![k] = FALSE]
    /\ last' = EngineStep("FetchStart", k)
    /\ UNCHANGED libCall
    /\ UNCHANGED <<queryData, isInvalidated, pc, config, context, error, log>>

\* A fetch in flight resolves: the server's data land in the cache.
FetchSettle(k) ==
    /\ fetching[k]
    /\ \E d \in Data : queryData' = [queryData EXCEPT ![k] = d]
    /\ fetching' = [fetching EXCEPT ![k] = FALSE]
    /\ isInvalidated' = [isInvalidated EXCEPT ![k] = FALSE]
    /\ last' = EngineStep("FetchSettle", k)
    /\ UNCHANGED libCall
    /\ UNCHANGED <<pc, config, context, error, log, seenByBegin, fetches>>

\* ------------------------------------------------------------- onMutate
\* mutate(variables) on a hook configured with queryKey, invalidateOnSuccess:
\* onMutate runs up to its await, having called cancelQueries.
OnMutateStart(m) ==
    /\ pc[m] = "idle"
    /\ \A j \in Mutations : j < m => pc[j] # "idle"
    /\ \E c \in Configs :
        /\ config' = [config EXCEPT ![m] = c]
        /\ fetching' = cancelQueries(fetching, c.queryKey)
        /\ seenByBegin' = [k \in Keys |->
              IF QueryFilter(k, c.queryKey) /\ fetching[k] THEN TRUE
              ELSE seenByBegin[k]]
        /\ last' = HookStep("OnMutateStart", m, c.queryKey)
        /\ UNCHANGED libCall
    /\ pc' = [pc EXCEPT ![m] = "cancelling"]
    /\ log' = [log EXCEPT ![m] = Append(@, "cancelQueries")]
    /\ UNCHANGED <<queryData, isInvalidated, context, error, fetches>>

\* Mutant: onMutate is suspended between the snapshot and the write, for one
\* step of another operation: the snapshot is the value cached before it.
OnMutateResumeStale(m) ==
    LET queryKey == config[m].queryKey
        previousData == getQueryData(last.queryData, queryKey)
    IN  /\ pc[m] = "cancelling"
        /\ IF ShouldApply(previousData)
           THEN /\ queryData' = setQueryData(queryData, queryKey,
                                    updater(previousData, config[m].variables))
                /\ log' = [log EXCEPT ![m] =
                              @ \o <<"getQueryData", "setQueryData">>]
           ELSE /\ queryData' = queryData
                /\ log' = [log EXCEPT ![m] = Append(@, "getQueryData")]
        /\ context' = [context EXCEPT ![m] = [previousData |-> previousData]]
        /\ pc' = [pc EXCEPT ![m] = "begun"]
        /\ last' = HookStep("OnMutateResume", m, queryKey)
        /\ UNCHANGED libCall
        /\ UNCHANGED <<fetching, isInvalidated, config, error, seenByBegin, fetches>>

\* onMutate resumes after the await: snapshot, optimistic write, context.
OnMutateResume(m) ==
    LET queryKey == config[m].queryKey
        previousData == getQueryData(queryData, queryKey)
    IN  /\ pc[m] = "cancelling"
        /\ IF ShouldApply(previousData)
           THEN /\ queryData' = setQueryData(queryData, queryKey,
                                    updater(previousData, config[m].variables))
                /\ log' = [log EXCEPT ![m] =
                              @ \o <<"getQueryData", "setQueryData">>]
           ELSE /\ queryData' = queryData
                /\ log' = [log EXCEPT ![m] = Append(@, "getQueryData")]
        /\ context' = [context EXCEPT ![m] = [previousData |-> previousData]]
        /\ pc' = [pc EXCEPT ![m] = "begun"]
        /\ last' = HookStep("OnMutateResume", m, queryKey)
        /\ UNCHANGED libCall
        /\ UNCHANGED <<fetching, isInvalidated, config, error, seenByBegin, fetches>>

\* Mutant: the snapshot is kept as the context although the updater threw.
OnMutateUpdaterThrowsKeepingContext(m) ==
    LET previousData == getQueryData(queryData, config[m].queryKey)
    IN  /\ pc[m] = "cancelling"
        /\ ShouldApply(previousData)
        /\ log' = [log EXCEPT ![m] = Append(@, "getQueryData")]
        /\ context' = [context EXCEPT ![m] = [previousData |-> previousData]]
        /\ pc' = [pc EXCEPT ![m] = "failed"]
        /\ error' = [error EXCEPT ![m] = TRUE]
        /\ last' = HookStep("OnMutateUpdaterThrows", m, config[m].queryKey)
        /\ UNCHANGED libCall
        /\ UNCHANGED <<queryData, fetching, isInvalidated, config,
                       seenByBegin, fetches>>

\* onMutate resumes and the updater throws: no write, no context.
OnMutateUpdaterThrows(m) ==
    LET previousData == getQueryData(queryData, config[m].queryKey)
    IN  /\ pc[m] = "cancelling"
        /\ ShouldApply(previousData)
        /\ log' = [log EXCEPT ![m] = Append(@, "getQueryData")]
        /\ pc' = [pc EXCEPT ![m] = "failed"]
        /\ error' = [error EXCEPT ![m] = TRUE]
        /\ last' = HookStep("OnMutateUpdaterThrows", m, config[m].queryKey)
        /\ UNCHANGED libCall
        /\ UNCHANGED <<queryData, fetching, isInvalidated, config, context,
                       seenByBegin, fetches>>

\* ------------------------------------------------------------- remote write
\* Mutant: the remote write does not wait for onMutate to return.
RemoteIssueBeforeBegin(m) ==
    /\ pc[m] \in {"cancelling", "begun"}
    /\ pc' = [pc EXCEPT ![m] = "remote"]
    /\ log' = [log EXCEPT ![m] = Append(@, "mutationFn")]
    /\ last' = HookStep("RemoteIssue", m, config[m].queryKey)
    /\ UNCHANGED libCall
    /\ UNCHANGED <<queryData, fetching, isInvalidated, config, context, error,
                   seenByBegin, fetches>>

\* The engine issues the remote write (mutationFn) once onMutate has returned.
RemoteIssue(m) ==
    /\ pc[m] = "begun"
    /\ pc' = [pc EXCEPT ![m] = "remote"]
    /\ log' = [log EXCEPT ![m] = Append(@, "mutationFn")]
    /\ last' = HookStep("RemoteIssue", m, config[m].queryKey)
    /\ UNCHANGED libCall
    /\ UNCHANGED <<queryData, fetching, isInvalidated, config, context, error,
                   seenByBegin, fetches>>

RemoteSucceeds(m) ==
    /\ pc[m] = "remote"
    /\ pc' = [pc EXCEPT ![m] = "succeeded"]
    /\ log' = [log EXCEPT ![m] = Append(@, "success")]
    /\ last' = HookStep("RemoteSucceeds", m, config[m].queryKey)
    /\ UNCHANGED libCall
    /\ UNCHANGED <<queryData, fetching, isInvalidated, config, context, error,
                   seenByBegin, fetches>>

RemoteFails(m) ==
    /\ pc[m] = "remote"
    /\ pc' = [pc EXCEPT ![m] = "failed"]
    /\ error' = [error EXCEPT ![m] = TRUE]
    /\ log' = [log EXCEPT ![m] = Append(@, "failure")]
    /\ last' = HookStep("RemoteFails", m, config[m].queryKey)
    /\ UNCHANGED libCall
    /\ UNCHANGED <<queryData, fetching, isInvalidated, config, context,
                   seenByBegin, fetches>>

\* ------------------------------------------------------------- onError
OnError(m) ==
    /\ pc[m] = "failed"
    /\ IF ShouldRollback(context[m])
       THEN /\ queryData' = setQueryData(queryData, config[m].queryKey,
                                         context[m].previousData)
            /\ log' = [log EXCEPT ![m] = @ \o <<"rollback", "onError">>]
       ELSE /\ queryData' = queryData
            /\ log' = [log EXCEPT ![m] = Append(@, "onError")]
    /\ pc' = [pc EXCEPT ![m] = "errored"]
    /\ last' = HookStep("OnError", m, config[m].queryKey)
    /\ UNCHANGED libCall
    /\ UNCHANGED <<fetching, isInvalidated, config, context, error,
                   seenByBegin, fetches>>

\* ------------------------------------------------------------- onSettled
OnSettled(m) ==
    /\ pc[m] \in {"succeeded", "errored"}
    /\ IF ShouldInvalidate(config[m].invalidateOnSuccess, error[m])
       THEN /\ isInvalidated' =
                   invalidateQueries(isInvalidated, config[m].queryKey)
            /\ log' = [log EXCEPT ![m] =
                          @ \o <<"invalidateQueries", "onSettled">>]
       ELSE /\ isInvalidated' = isInvalidated
            /\ log' = [log EXCEPT ![m] = Append(@, "onSettled")]
    /\ pc' = [pc EXCEPT ![m] = "settled"]
    /\ last' = HookStep("OnSettled", m, config[m].queryKey)
    /\ UNCHANGED libCall
    /\ UNCHANGED <<queryData, fetching, config, context, error, seenByBegin, fetches>>

\* ------------------------------------------------------------- specification
\* Any step of mutation m.
MutationStep(m) ==
    \/ OnMutateStart(m)
    \/ OnMutateResume(m)
    \/ OnMutateUpdaterThrows(m)
    \/ RemoteIssue(m)
    \/ RemoteSucceeds(m)
    \/ RemoteFails(m)
    \/ OnError(m)
    \/ OnSettled(m)

Next ==
    \/ \E k \in Keys : FetchStart(k)
    \/ \E k \in Keys : FetchSettle(k)
    \/ \E m \in Mutations : MutationStep(m)

Spec == Init /\ [][Next]_vars


\* ------------------------------------------------------------- properties
\* The key a started mutation addresses, and whether it made a call.
KeyOf(m) == config[m].queryKey
InLog(m, call) == \E i \in 1..Len(log[m]) : log[m][i] = call
\* Every occurrence of call b in the log of m has a call a before it.
Before(m, a, b) ==
    \A j \in 1..Len(log[m]) :
        log[m][j] = b => \E i \in 1..(j - 1) : log[m][i] = a
HasSnapshot(m) == context[m] # NoContext /\ context[m].previousData # undefined
\* The last step was mutation m's, and took it from position p to position q.
Moved(m, p, q) == last.actor = m /\ last.pc = p /\ pc[m] = q

\* C1: the step that completes onMutate on a key holding a present value v
\* leaves updater(v, variables) cached at that key.
OptimisticApply ==
    \A m \in Mutations :
        (Moved(m, "cancelling", "begun") /\ last.queryData[KeyOf(m)] # undefined)
        => queryData[KeyOf(m)] =
               updater(last.queryData[KeyOf(m)], config[m].variables)

\* onMutate has just completed on a key that held a value: the optimistic
\* value, different from it, is cached.
OptimisticApplyWitness ==
    \E m \in Mutations :
        /\ Moved(m, "cancelling", "begun")
        /\ last.queryData[KeyOf(m)] # undefined
        /\ queryData[KeyOf(m)] # last.queryData[KeyOf(m)]
        /\ queryData[KeyOf(m)] =
               updater(context[m].previousData, config[m].variables)

\* C2: the onError step of a mutation whose context holds a present snapshot
\* leaves exactly that snapshot cached at its key, whatever was cached before.
RollbackRestoresSnapshot ==
    \A m \in Mutations :
        (Moved(m, "failed", "errored") /\ HasSnapshot(m))
        => queryData[KeyOf(m)] = context[m].previousData

\* onError has just rolled back after a remote failure, over a value that was
\* neither the snapshot nor the mutation's own optimistic value.
RollbackWitness ==
    \E m \in Mutations :
        /\ Moved(m, "failed", "errored")
        /\ HasSnapshot(m)
        /\ InLog(m, "failure")
        /\ last.queryData[KeyOf(m)] # context[m].previousData
        /\ last.queryData[KeyOf(m)] #
               updater(context[m].previousData, config[m].variables)
        /\ queryData[KeyOf(m)] = context[m].previousData

\* C3: onMutate on a key without data writes nothing and records an absent
\* snapshot, and the onError of such a mutation writes nothing either.
AbsentSnapshotWritesNothing ==
    \A m \in Mutations :
        /\ (/\ last.actor = m
            /\ last.pc = "cancelling"
            /\ last.queryData[KeyOf(m)] = undefined)
           => /\ queryData = last.queryData
              /\ pc[m] = "begun"
              /\ context[m] = [previousData |-> undefined]
        /\ (/\ Moved(m, "failed", "errored")
            /\ context[m] = [previousData |-> undefined])
           => queryData = last.queryData

\* A mutation with an absent snapshot failed remotely and has just run
\* onError, while data had arrived at its key in between: they are kept.
AbsentSnapshotWitness ==
    \E m \in Mutations :
        /\ Moved(m, "failed", "errored")
        /\ context[m] = [previousData |-> undefined]
        /\ log[m] = <<"cancelQueries", "getQueryData", "mutationFn",
                      "failure", "onError">>
        /\ queryData[KeyOf(m)] # undefined

\* The order of the steps of onMutate, and onMutate before the remote write.
BeginOrder(m) ==
    /\ Before(m, "cancelQueries", "getQueryData")
    /\ Before(m, "getQueryData", "setQueryData")
    /\ Before(m, "getQueryData", "mutationFn")
    /\ \A i, j \in 1..Len(log[m]) :
          (log[m][i] = "mutationFn" /\ log[m][j] = "setQueryData") => j < i
    /\ Before(m, "mutationFn", "success")
    /\ Before(m, "mutationFn", "failure")

\* The remote write's outcome is in the log before every occurrence of call.
AfterOutcome(m, call) ==
    \A j \in 1..Len(log[m]) :
        log[m][j] = call =>
            \E i \in 1..(j - 1) : log[m][i] \in {"success", "failure"}

\* C4 as stated: cancel, snapshot, optimistic write in this order and before
\* the remote write; onError and onSettled only after the remote outcome.
SettleOnlyAfterRemoteOutcome ==
    \A m \in Mutations :
        /\ BeginOrder(m)
        /\ AfterOutcome(m, "onError")
        /\ AfterOutcome(m, "rollback")
        /\ AfterOutcome(m, "onSettled")
        /\ AfterOutcome(m, "invalidateQueries")

\* C4 amended: the order of onMutate's steps holds; once the remote write is
\* issued, onError and onSettled run only after its outcome; they also run
\* when onMutate itself threw, after the snapshot and with no remote write and
\* no optimistic write at all.  Settle is never before begin.
SettleAfterBegin ==
    \A m \in Mutations :
        /\ BeginOrder(m)
        /\ Before(m, "getQueryData", "onError")
        /\ Before(m, "failure", "rollback")
        /\ Before(m, "getQueryData", "onSettled")
        /\ Before(m, "success", "invalidateQueries")
        /\ \A call \in {"onError", "rollback", "onSettled", "invalidateQueries"} :
              \/ AfterOutcome(m, call)
              \/ ~InLog(m, "mutationFn") /\ ~InLog(m, "setQueryData")

\* A mutation went through every step of the failure path, in order.
SettleAfterBeginWitness ==
    \E m \in Mutations :
        log[m] = <<"cancelQueries", "getQueryData", "setQueryData",
                   "mutationFn", "failure", "rollback", "onError", "onSettled">>

\* The state of the mutation's state machine at a position of the lifecycle.
StateOf(p, err) ==
    CASE p = "idle" -> "Idle"
      [] p \in {"cancelling", "begun", "remote", "succeeded", "failed"}
           -> "Pending"
      [] p = "errored" -> "RolledBack"
      [] p = "settled" -> IF err THEN "RolledBack" ELSE "Committed"

SuccessInvalidates ==
    \A m \in Mutations :
        (Moved(m, "succeeded", "settled") /\ config[m].invalidateOnSuccess)
        => /\ isInvalidated[KeyOf(m)]
           /\ InLog(m, "invalidateQueries")
           /\ ~InLog(m, "rollback")
           /\ queryData = last.queryData

\* A successful mutation has just settled: its key is newly invalidated and
\* still holds a value that is not the snapshot.
SuccessInvalidatesWitness ==
    \E m \in Mutations :
        /\ Moved(m, "succeeded", "settled")
        /\ config[m].invalidateOnSuccess
        /\ HasSnapshot(m)
        /\ ~last.isInvalidated[KeyOf(m)]
        /\ isInvalidated[KeyOf(m)]
        /\ queryData[KeyOf(m)] =
               updater(context[m].previousData, config[m].variables)
        /\ queryData[KeyOf(m)] # context[m].previousData

CancelledFetchNeverWrites ==
    last.op = "FetchSettle" => ~last.seenByBegin[last.key]

\* A fetch of the mutation's key was in flight when onMutate was called, is no
\* longer in flight, and onMutate has just cached the optimistic value.
CancelledFetchWitness ==
    \E m \in Mutations :
        /\ Moved(m, "cancelling", "begun")
        /\ HasSnapshot(m)
        /\ seenByBegin[KeyOf(m)]
        /\ ~fetching[KeyOf(m)]
        /\ queryData[KeyOf(m)] =
               updater(context[m].previousData, config[m].variables)

\* The last step left key k as it was: data, fetch and invalidation.
Untouched(k) ==
    /\ queryData[k] = last.queryData[k]
    /\ fetching[k] = last.fetching[k]
    /\ isInvalidated[k] = last.isInvalidated[k]

\* C9 as stated: no step of a mutation touches a key other than its own.
DifferentKeysIndependent ==
    \A m \in Mutations : \A k \in Keys :
        (last.actor = m /\ k # KeyOf(m)) => Untouched(k)

\* C9 amended: no step of a mutation changes the cached data of a key other
\* than its own, and no step touches at all a key that does not start with
\* the mutation's key.
KeysOutsidePrefixIndependent ==
    \A m \in Mutations : \A k \in Keys :
        (last.actor = m /\ k # KeyOf(m))
        => /\ queryData[k] = last.queryData[k]
           /\ ~matchQueryKey(k, KeyOf(m)) => Untouched(k)

\* A mutation on the key below the resource key has just settled with an
\* invalidation, while the resource key keeps its data, its fetch in flight
\* and no invalidation.
KeysOutsidePrefixWitness ==
    \E m \in Mutations :
        /\ Moved(m, "succeeded", "settled")
        /\ KeyOf(m) = PostsDetailKey
        /\ ~last.isInvalidated[KeyOf(m)]
        /\ isInvalidated[KeyOf(m)]
        /\ fetching[PostsKey]
        /\ ~isInvalidated[PostsKey]

\* C10: the snapshot a mutation records is the value cached at its key at the
\* step that completes onMutate, whoever wrote it.
SnapshotIsCurrentValue ==
    \A m \in Mutations :
        Moved(m, "cancelling", "begun")
        => context[m] = [previousData |-> last.queryData[KeyOf(m)]]

\* Lost update: n took m's optimistic value as its snapshot and cached its own
\* optimistic value; m's onError has just overwritten it with m's snapshot
\* while n is still pending.
LostUpdateWitness ==
    \E m, n \in Mutations :
        /\ m # n
        /\ KeyOf(m) = KeyOf(n)
        /\ Moved(m, "failed", "errored")
        /\ pc[n] \in {"begun", "remote", "succeeded"}
        /\ HasSnapshot(m)
        /\ HasSnapshot(n)
        /\ context[n].previousData =
               updater(context[m].previousData, config[m].variables)
        /\ last.queryData[KeyOf(n)] =
               updater(context[n].previousData, config[n].variables)
        /\ queryData[KeyOf(m)] = context[m].previousData
        /\ queryData[KeyOf(m)] # last.queryData[KeyOf(n)]


\* ------------------------------------------------------------- onError call
\* The hook's onError taken by itself: the engine calls it with the error of
\* the failed mutation, the variables and the context of onMutate; the caller
\* of the hook may have supplied an onError of their own.
Errors == {"NetworkError", "ValidationError"}

Contexts == {NoContext} \cup [previousData : Data \cup {undefined}]

\* Mutant: the caller's onError is handed a new error in place of the one the
\* hook received.
OnErrorArgumentsWrapped(err, variables, ctx) ==
    [error |-> "Error", variables |-> variables, context |-> ctx]

\* "onError(error, variables, context, ...rest)": the arguments are passed on.
OnErrorArguments(err, variables, ctx) ==
    [error |-> err, variables |-> variables, context |-> ctx]

\* Mutant: the caller's onError is called before the rollback.
OnErrorBodyCallbackFirst(ctx, hasOnError) ==
    (IF hasOnError THEN <<"onError">> ELSE <<>>)
    \o (IF ShouldRollback(ctx) THEN <<"setQueryData">> ELSE <<>>)

\* The statements onError executes, in order: the rollback write if there is
\* a snapshot, then the caller's onError if there is one.
OnErrorBody(ctx, hasOnError) ==
    (IF ShouldRollback(ctx) THEN <<"setQueryData">> ELSE <<>>)
    \o (IF hasOnError THEN <<"onError">> ELSE <<>>)

\* Runs the statements on the call c: the cache they leave, and what the
\* caller's onError received together with the cache it could observe.
RECURSIVE RunOnErrorBody(_, _)
RunOnErrorBody(statements, c) ==
    IF statements = <<>> THEN c
    ELSE LET statement == Head(statements)
             after ==
                 IF statement = "setQueryData"
                 THEN [c EXCEPT !.queryData =
                         setQueryData(@, c.queryKey, c.context.previousData)]
                 ELSE [c EXCEPT !.received = Append(@,
                         [arguments |-> OnErrorArguments(c.error, c.variables,
                                                         c.context),
                          queryData |-> c.queryData])]
         IN RunOnErrorBody(Tail(statements), after)

\* The calls of onError: any error, with or without a caller's onError, with
\* or without a context, on any cache.  cached keeps the cache of the call's
\* start (history).
OnErrorCalls ==
    {[fn |-> "onError", pc |-> "called", queryKey |-> queryKey,
      hasOnError |-> hasOnError, error |-> err, variables |-> variables,
      context |-> ctx, queryData |-> d, cached |-> d, received |-> <<>>] :
        queryKey \in Keys, hasOnError \in BOOLEAN, err \in Errors,
        variables \in Deltas, ctx \in Contexts,
        d \in [Keys -> Data \cup {undefined}]}

OnErrorInit ==
    /\ HookInit
    /\ libCall \in OnErrorCalls

\* The engine's call of the hook's onError runs to its end.
OnErrorReturns ==
    /\ libCall.pc = "called"
    /\ libCall' = [RunOnErrorBody(OnErrorBody(libCall.context,
                                              libCall.hasOnError), libCall)
                       EXCEPT !.pc = "returned"]
    /\ UNCHANGED hookVars

OnErrorNext == OnErrorReturns

OnErrorSpec == OnErrorInit /\ [][OnErrorNext]_vars

\* C11: once the hook's onError has returned and the caller supplied an
\* onError, the caller's onError was called exactly once, with the very error
\* the hook received, and the cache it could observe already held the snapshot
\* at the mutation's key whenever there was a snapshot to restore; without a
\* snapshot it was called all the same.
CallerOnErrorAfterRollback ==
    (libCall.pc = "returned" /\ libCall.hasOnError)
    => /\ Len(libCall.received) = 1
       /\ libCall.received[1].arguments.error = libCall.error
       /\ ShouldRollback(libCall.context)
          => libCall.received[1].queryData[libCall.queryKey]
                 = libCall.context.previousData

\* The caller's onError observed a cache in which the rollback had replaced
\* the optimistic value by the snapshot.
CallerOnErrorAfterRollbackWitness ==
    /\ libCall.pc = "returned"
    /\ libCall.hasOnError
    /\ ShouldRollback(libCall.context)
    /\ libCall.cached[libCall.queryKey] # libCall.context.previousData
    /\ Len(libCall.received) = 1
    /\ libCall.received[1].arguments.error = libCall.error
    /\ libCall.received[1].queryData[libCall.queryKey]
           = libCall.context.previousData


\* ------------------------------------------------------------- persister
\* createPersister(options): serialize wraps the dehydrated client with a
\* version and a timestamp and encodes it as JSON; deserialize decodes what
\* the storage holds and validates version and age.

\* The clock (Date.now()) runs over 0..MaxTime.
MaxTime == 3
\* The option maxAge is one of 0..LongestMaxAge.
LongestMaxAge == 2

Times == 0..MaxTime
MaxAges == 0..LongestMaxAge
\* The option busterVersion.
Versions == {"1", "2"}

\* JavaScript values that are no segments of a key.
Date(s) == [type |-> "Date", ref |-> 0, val |-> s]
Null == [type |-> "null", ref |-> 0, val |-> ""]
undefinedValue == undefinedSegment

\* Numbers one computes with: a timestamp, an age, NaN.
Num(n) == [type |-> "number", n |-> n]
NaN == [type |-> "NaN", n |-> 0]
\* What reading a property gives that the object does not have, as an operand
\* of arithmetic.
undefinedOperand == [type |-> "undefined", n |-> 0]

\* a - b: NaN unless both operands are numbers (Number(undefined) is NaN).
Minus(a, b) ==
    IF a.type = "number" /\ b.type = "number" THEN Num(a.n - b.n) ELSE NaN

\* Mutant: the comparison is not strict.
GreaterOrEqual(a, b) ==
    IF a.type = "number" /\ b.type = "number" THEN a.n >= b.n ELSE FALSE

\* a > b: false whenever an operand is NaN.
GreaterThan(a, b) ==
    IF a.type = "number" /\ b.type = "number" THEN a.n > b.n ELSE FALSE

\* The data of a cached query, and the dehydrated client that holds them:
\* what the engine hands to serialize.
CachedData ==
    {Number("1"), Number("NaN"), String("a"),
     Date("2026-11-01T00:00:00.000Z")}
Clients == [clientState : CachedData]

\* JSON.stringify on a value: a Date becomes its ISO string (toJSON), NaN
\* becomes null, every other value of CachedData is written as it is.
JSONValue(v) ==
    IF v.type = "Date" THEN String(v.val)
    ELSE IF v = Number("NaN") THEN Null
    ELSE v

\* The JSON text of an object { version, timestamp, data }.  The text is kept
\* as the document it denotes: kind "object" with its three properties.
JSONStringify(persistData) ==
    [kind |-> "object",
     version |-> persistData.version,
     timestamp |-> persistData.timestamp,
     data |-> [clientState |-> JSONValue(persistData.data.clientState)]]

\* The strings the storage may hold: no JSON at all, the JSON texts "null" and
\* of a number, and the JSON text of an object whose version is a string, a
\* number or missing, and whose timestamp is a number or missing.
JSONData == {JSONValue(v) : v \in CachedData}
StoredVersions == {String(v) : v \in Versions} \cup {Number("1"), undefinedValue}
StoredTimestamps == {Num(t) : t \in Times} \cup {undefinedOperand}
NoObject(kind) ==
    [kind |-> kind, version |-> undefinedValue, timestamp |-> undefinedOperand,
     data |-> [clientState |-> Null]]
CachedStrings ==
    {NoObject("garbage"), NoObject("null"), NoObject("number")}
    \cup [kind : {"object"}, version : StoredVersions,
          timestamp : StoredTimestamps, data : [clientState : JSONData]]

\* JSON.parse(cachedString) throws a SyntaxError on a string that is no JSON.
JSONParseThrows(cachedString) == cachedString.kind = "garbage"
\* Reading a property of null throws a TypeError; of a number it gives
\* undefined, as NoObject("number") has it.
PropertyReadThrows(parsed) == parsed.kind = "null"

\* What deserialize returns, and what it wrote to the console on the way.
Returned(value, dev, message) ==
    [value |-> value, console |-> IF dev THEN <<message>> ELSE <<>>]

\* Mutant: the version is left out of what is written.
serializeUnversioned(data, busterVersion, now) ==
    JSONStringify([version |-> undefinedValue, timestamp |-> Num(now),
                   data |-> data])

\* serialize(data) at time now, for a persister created with busterVersion.
serialize(data, busterVersion, now) ==
    JSONStringify([version |-> String(busterVersion), timestamp |-> Num(now),
                   data |-> data])

\* Mutant: the age is validated before the version.
deserializeAgeFirst(cachedString, busterVersion, maxAge, now, dev) ==
    IF JSONParseThrows(cachedString) \/ PropertyReadThrows(cachedString)
    THEN Returned(undefinedValue, dev, "Failed to deserialize cache")
    ELSE LET parsed == cachedString
             age == Minus(Num(now), parsed.timestamp)
         IN  IF GreaterThan(age, Num(maxAge))
             THEN Returned(undefinedValue, dev, "Cache expired")
             ELSE IF parsed.version # String(busterVersion)
             THEN Returned(undefinedValue, dev, "Cache version mismatch")
             ELSE [value |-> parsed.data, console |-> <<>>]

\* deserialize(cachedString) at time now, for a persister created with
\* busterVersion and maxAge; dev is __DEV__.  The catch block takes every
\* throw of the try block.
deserialize(cachedString, busterVersion, maxAge, now, dev) ==
    IF JSONParseThrows(cachedString) \/ PropertyReadThrows(cachedString)
    THEN Returned(undefinedValue, dev, "Failed to deserialize cache")
    ELSE LET parsed == cachedString
             age == Minus(Num(now), parsed.timestamp)
         IN  IF parsed.version # String(busterVersion)
             THEN Returned(undefinedValue, dev, "Cache version mismatch")
             ELSE IF GreaterThan(age, Num(maxAge))
             THEN Returned(undefinedValue, dev, "Cache expired")
             ELSE [value |-> parsed.data, console |-> <<>>]

\* Nothing was written, nothing was read (history).
NoWrite == [none |-> TRUE]
NoRead == [none |-> TRUE]

\* A persister over a storage that holds any string, created with any
\* options, in a development or a production build.
PersisterInit ==
    /\ HookInit
    /\ libCall \in
         [fn : {"persister"}, busterVersion : Versions, maxAge : MaxAges,
          dev : BOOLEAN, now : {0}, stored : CachedStrings,
          written : {NoWrite}, read : {NoRead}]

\* The clock advances.
Tick ==
    /\ libCall.now < MaxTime
    /\ libCall' = [libCall EXCEPT !.now = @ + 1]
    /\ UNCHANGED hookVars

\* The application restarts with another busterVersion.
Restart(version) ==
    /\ version # libCall.busterVersion
    /\ libCall' = [libCall EXCEPT !.busterVersion = version]
    /\ UNCHANGED hookVars

\* The engine persists a client: serialize, and the storage takes the string.
Serialize(data) ==
    /\ libCall' = [libCall EXCEPT
           !.stored = serialize(data, libCall.busterVersion, libCall.now),
           !.written = [data |-> data, version |-> libCall.busterVersion,
                        at |-> libCall.now]]
    /\ UNCHANGED hookVars

\* The engine restores: deserialize on what the storage holds.  read keeps the
\* call's inputs beside its result (history).
Deserialize ==
    /\ libCall' = [libCall EXCEPT
           !.read = [cachedString |-> libCall.stored,
                     busterVersion |-> libCall.busterVersion,
                     maxAge |-> libCall.maxAge,
                     now |-> libCall.now,
                     written |-> libCall.written,
                     result |-> deserialize(libCall.stored,
                                            libCall.busterVersion,
                                            libCall.maxAge, libCall.now,
                                            libCall.dev)]]
    /\ UNCHANGED hookVars

PersisterNext ==
    \/ Tick
    \/ \E version \in Versions : Restart(version)
    \/ \E data \in Clients : Serialize(data)
    \/ Deserialize

PersisterSpec == PersisterInit /\ [][PersisterNext]_vars

\* ------------------------------------------------------------- persister
\*                                                                 properties
\* The last call of deserialize, and whether there was one.
HasRead == libCall.read # NoRead
ReadDecodes ==
    /\ ~JSONParseThrows(libCall.read.cachedString)
    /\ ~PropertyReadThrows(libCall.read.cachedString)
ReadVersionEqual ==
    libCall.read.cachedString.version = String(libCall.read.busterVersion)
\* The stored record has a write timestamp, and it lies within maxAge.
ReadHasTimestamp == libCall.read.cachedString.timestamp.type = "number"
ReadWithinMaxAge ==
    /\ ReadHasTimestamp
    /\ libCall.read.now - libCall.read.cachedString.timestamp.n
           <= libCall.read.maxAge
\* The string read is the one the last serialize wrote.
ReadOfWrite ==
    /\ HasRead
    /\ libCall.read.written # NoWrite

\* C12: deserialize returns the stored payload exactly when the stored string
\* decodes, its version equals the expected one and now - writtenAt <= maxAge;
\* in every other case, a record without a usable write timestamp included, it
\* returns undefined.
DeserializeIffValid ==
    HasRead
    => IF ReadDecodes /\ ReadVersionEqual /\ ReadWithinMaxAge
       THEN libCall.read.result.value = libCall.read.cachedString.data
       ELSE libCall.read.result.value = undefinedValue

\* The first check of decode, version, age that fails on the last read, as the
\* code computes the checks.
FirstFailingCheck ==
    IF ~ReadDecodes THEN "DecodeError"
    ELSE IF ~ReadVersionEqual THEN "VersionMismatch"
    ELSE IF GreaterThan(Minus(Num(libCall.read.now),
                              libCall.read.cachedString.timestamp),
                        Num(libCall.read.maxAge)) THEN "Expired"
    ELSE "none"

\* The console message of each failing check.
MessageOf(check) ==
    CASE check = "DecodeError" -> "Failed to deserialize cache"
      [] check = "VersionMismatch" -> "Cache version mismatch"
      [] check = "Expired" -> "Cache expired"

\* The cause a caller can learn from a call of deserialize: the one its
\* console message names, none when nothing was written to the console (the
\* returned value is undefined for every cause).
ReportedCause(result) ==
    IF result.console = <<>> THEN "none"
    ELSE CHOOSE check \in {"DecodeError", "VersionMismatch", "Expired"} :
            MessageOf(check) = result.console[1]

\* C13 as stated: the first failing check is reported as its own
\* distinguishable cause.
FirstFailureDistinguishable ==
    (HasRead /\ FirstFailingCheck # "none")
    => ReportedCause(libCall.read.result) = FirstFailingCheck

\* C13, amended: deserialize checks decode, then version, then age, and stops
\* at the first check that fails; every failing check returns the same
\* undefined, and the cause is told only by the console message of a
\* development build: a production build reports nothing.  A string written
\* with another version gives the version mismatch whatever its age.
FirstFailureLoggedInDev ==
    HasRead
    => /\ FirstFailingCheck # "none"
          => /\ libCall.read.result.value = undefinedValue
             /\ libCall.read.result.console =
                    IF libCall.dev THEN <<MessageOf(FirstFailingCheck)>>
                    ELSE <<>>
       /\ (ReadOfWrite
           /\ libCall.read.written.version # libCall.read.busterVersion)
          => /\ libCall.read.result.value = undefinedValue
             /\ libCall.dev
                => libCall.read.result.console = <<"Cache version mismatch">>

\* A development build read a string that was written with another version
\* and is older than maxAge as well: the version mismatch is what it logged.
FirstFailureLoggedInDevWitness ==
    /\ ReadOfWrite
    /\ libCall.dev
    /\ libCall.read.written.version # libCall.read.busterVersion
    /\ libCall.read.now - libCall.read.written.at > libCall.read.maxAge
    /\ libCall.read.result.value = undefinedValue
    /\ libCall.read.result.console = <<"Cache version mismatch">>

\* The last read took what the last serialize wrote, with the version of the
\* write, no later than maxAge after it.
ReadOfWriteWithinMaxAge ==
    /\ ReadOfWrite
    /\ libCall.read.written.version = libCall.read.busterVersion
    /\ libCall.read.now - libCall.read.written.at <= libCall.read.maxAge

\* C14 as stated: a read of serialize's output with the same version and
\* within maxAge returns a payload equal to the snapshot, for every snapshot.
RoundTrip ==
    ReadOfWriteWithinMaxAge
    => libCall.read.result.value = libCall.read.written.data

\* C14, amended: such a read returns the JSON image of the snapshot, which is
\* the snapshot itself whenever JSON represents every value of the snapshot
\* (no Date, no NaN).
RoundTripOfJSON ==
    ReadOfWriteWithinMaxAge
    => LET snapshot == libCall.read.written.data
           image == [clientState |-> JSONValue(snapshot.clientState)]
       IN  /\ libCall.read.result.value = image
           /\ image = snapshot => libCall.read.result.value = snapshot

\* A snapshot of JSON values was written at a time other than 0 and read back
\* equal, later and within maxAge.
RoundTripOfJSONWitness ==
    /\ ReadOfWriteWithinMaxAge
    /\ libCall.read.written.at > 0
    /\ libCall.read.now > libCall.read.written.at
    /\ libCall.read.written.data = [clientState |-> String("a")]
    /\ libCall.read.result.value = [clientState |-> String("a")]

\* C15: a string serialized at t0 and read with the same version is valid at
\* exactly t0 + maxAge and rejected as expired at t0 + maxAge + 1.
ExpiryBoundary ==
    (/\ ReadOfWrite
     /\ libCall.read.written.version = libCall.read.busterVersion)
    => LET t0 == libCall.read.written.at
           result == libCall.read.result
       IN  /\ libCall.read.now = t0 + libCall.read.maxAge
              => /\ result.value = libCall.read.cachedString.data
                 /\ result.console = <<>>
           /\ libCall.read.now = t0 + libCall.read.maxAge + 1
              => /\ result.value = undefinedValue
                 /\ libCall.dev => result.console = <<"Cache expired">>

\* A string written at time 1 with maxAge 1 was read at time 2 and returned.
ExpiryBoundaryWitness ==
    /\ ReadOfWrite
    /\ libCall.read.written.version = libCall.read.busterVersion
    /\ libCall.read.written.at = 1
    /\ libCall.read.maxAge = 1
    /\ libCall.read.now = 2
    /\ libCall.read.result.value = libCall.read.cachedString.data


\* ------------------------------------------------------------- storage
\* clearPersistedCache(keyPrefix) and getPersistedCacheSize(keyPrefix) on
\* AsyncStorage, whose calls may reject.

\* A stored string has at most MaxBytes bytes.
MaxBytes == 2

KeyPrefixes == {"tanstack-query", "myapp"}
\* The entry `${keyPrefix}-cache`.
StorageKey(keyPrefix) == <<keyPrefix, "-cache">>
StorageKeys == {StorageKey(keyPrefix) : keyPrefix \in KeyPrefixes}

\* What getItem resolves to: null for an absent entry, else the string, of
\* which only the number of bytes matters.
NullItem == [present |-> FALSE, bytes |-> 0]
StringItem(bytes) == [present |-> TRUE, bytes |-> bytes]
Items == {NullItem} \cup {StringItem(bytes) : bytes \in 0..MaxBytes}

\* "data ? ... : ...": null and the empty string are falsy.
Truthy(data) == data.present /\ data.bytes > 0
\* new Blob([data]).size
BlobSize(data) == data.bytes

\* How an async function settles.
Fulfilled(value) == [settled |-> "fulfilled", value |-> value]
Rejected == [settled |-> "rejected", value |-> 0]

\* Mutant: the error of the try block propagates.
TryRethrow(threw, value, caught) ==
    IF threw THEN Rejected ELSE Fulfilled(value)

\* try { return value } catch { return caught }: a throw in the try block
\* ends in the catch block, which does not throw.
TryCatch(threw, value, caught) ==
    IF threw THEN Fulfilled(caught) ELSE Fulfilled(value)

\* clearPersistedCache: resolves to undefined on both paths.
clearPersistedCache(removeItemRejects) ==
    TryCatch(removeItemRejects, undefined, undefined)

\* getPersistedCacheSize, data being what getItem resolves to when it does.
getPersistedCacheSize(data, getItemRejects) ==
    TryCatch(getItemRejects,
             IF Truthy(data) THEN BlobSize(data) ELSE 0,
             0)

NoOutcome == [fn |-> "none", keyPrefix |-> "", rejects |-> FALSE,
              data |-> NullItem, outcome |-> Fulfilled(undefined)]

StorageInit ==
    /\ HookInit
    /\ libCall = [fn |-> "storage",
                  storage |-> [key \in StorageKeys |-> NullItem],
                  returned |-> NoOutcome]

\* The persister writes a string under a prefix.
SetItem(keyPrefix, bytes) ==
    /\ libCall' = [libCall EXCEPT
           !.storage[StorageKey(keyPrefix)] = StringItem(bytes)]
    /\ UNCHANGED hookVars

\* clearPersistedCache(keyPrefix) runs to its end; removeItem deletes the
\* entry unless it rejects.
ClearPersistedCache(keyPrefix, rejects) ==
    /\ libCall' = [libCall EXCEPT
           !.storage[StorageKey(keyPrefix)] = IF rejects THEN @ ELSE NullItem,
           !.returned = [fn |-> "clearPersistedCache", keyPrefix |-> keyPrefix,
                         rejects |-> rejects,
                         data |-> libCall.storage[StorageKey(keyPrefix)],
                         outcome |-> clearPersistedCache(rejects)]]
    /\ UNCHANGED hookVars

\* getPersistedCacheSize(keyPrefix) runs to its end.
GetPersistedCacheSize(keyPrefix, rejects) ==
    /\ libCall' = [libCall EXCEPT
           !.returned = [fn |-> "getPersistedCacheSize",
                         keyPrefix |-> keyPrefix, rejects |-> rejects,
                         data |-> libCall.storage[StorageKey(keyPrefix)],
                         outcome |-> getPersistedCacheSize(
                                         libCall.storage[StorageKey(keyPrefix)],
                                         rejects)]]
    /\ UNCHANGED hookVars

StorageNext ==
    \/ \E keyPrefix \in KeyPrefixes, bytes \in 0..MaxBytes :
           SetItem(keyPrefix, bytes)
    \/ \E keyPrefix \in KeyPrefixes, rejects \in BOOLEAN :
           ClearPersistedCache(keyPrefix, rejects)
    \/ \E keyPrefix \in KeyPrefixes, rejects \in BOOLEAN :
           GetPersistedCacheSize(keyPrefix, rejects)

StorageSpec == StorageInit /\ [][StorageNext]_vars

\* C16: a call of clearPersistedCache resolves whether or not the delete
\* failed, and a call of getPersistedCacheSize resolves to 0 when the read
\* failed or the entry is absent.
BestEffortStorage ==
    /\ libCall.returned.fn = "clearPersistedCache"
       => libCall.returned.outcome.settled = "fulfilled"
    /\ (/\ libCall.returned.fn = "getPersistedCacheSize"
        /\ libCall.returned.rejects \/ libCall.returned.data = NullItem)
       => libCall.returned.outcome = Fulfilled(0)

\* The read of a present, non-empty entry failed and the size returned is 0.
BestEffortStorageWitness ==
    /\ libCall.returned.fn = "getPersistedCacheSize"
    /\ libCall.returned.rejects
    /\ libCall.returned.data = StringItem(MaxBytes)
    /\ libCall.returned.outcome = Fulfilled(0)


\* ------------------------------------------------------------- query keys
\* The key builders and matchQueryKey, called with any arguments.

\* A key or pattern handed to matchQueryKey has at most MaxKeyLength segments.
MaxKeyLength == 3

Resources == {"posts", ""}
ScopeIds == {"user123", ""}
\* Filter records: two built separately with the same attributes, and one
\* with other attributes.
Filters ==
    {Object(1, "status=published"), Object(2, "status=published"),
     Object(3, "status=draft")}
Ids == {String("123"), Number("123"), Number("NaN")}
Methods == {"all", "lists", "list", "details", "detail", "custom"}

\* The arguments a method of the factory takes.
ArgumentsOf(method) ==
    CASE method = "list" -> {<<>>} \cup {<<filters>> : filters \in Filters}
      [] method = "detail" -> {<<id>> : id \in Ids}
      [] method = "custom" -> {<<>>, <<String("stats")>>,
                               <<String("stats"), Number("123")>>}
      [] OTHER -> {<<>>}

\* What a call gives: the key it returns, or the error it throws.
Returns(key) == [threw |-> "none", key |-> key]
Throws(err) == [threw |-> err, key |-> <<>>]

\* Mutant: the resource name is validated.
createQueryKeyFactoryValidated(resource, method, arguments) ==
    IF resource = "" THEN Throws("InvalidKeyError")
    ELSE Returns(<<String(resource)>> \o arguments)

\* createQueryKeyFactory(resource)[method](...arguments).  An argument left
\* out is undefined, and "filters ? ... : ..." takes every object as true.
createQueryKeyFactory(resource, method, arguments) ==
    CASE method = "all" -> Returns(<<String(resource)>>)
      [] method = "lists" -> Returns(<<String(resource), String("list")>>)
      [] method = "list" ->
            IF arguments # <<>>
            THEN Returns(<<String(resource), String("list"), arguments[1]>>)
            ELSE Returns(<<String(resource), String("list")>>)
      [] method = "details" -> Returns(<<String(resource), String("detail")>>)
      [] method = "detail" ->
            Returns(<<String(resource), String("detail"), arguments[1]>>)
      [] method = "custom" -> Returns(<<String(resource)>> \o arguments)

\* Mutant: the key starts with the literal "scope".
createScopedQueryKeyScope(scopeId, resource, arguments) ==
    Returns(<<String("scope"), String(scopeId), String(resource)>>
            \o arguments)

\* createScopedQueryKey(scopeId, resource, ...args)
createScopedQueryKey(scopeId, resource, arguments) ==
    Returns(<<String("user"), String(scopeId), String(resource)>>
            \o arguments)

\* The segments of the keys and patterns matchQueryKey is called with.
Segments ==
    {String("posts"), Number("NaN"), undefinedSegment,
     Object(1, "status=published"), Object(2, "status=published")}
RECURSIVE KeysOfLength(_)
KeysOfLength(n) ==
    IF n = 0 THEN {<<>>}
    ELSE {Append(key, segment) : key \in KeysOfLength(n - 1),
                                 segment \in Segments}
QueryKeys == UNION {KeysOfLength(n) : n \in 0..MaxKeyLength}

\* The calls under check: every builder with every argument list,
\* matchQueryKey on every pair of a key and a pattern, and matchQueryKey on
\* every key of a factory with the patterns of the same factory.
KeyInit ==
    /\ HookInit
    /\ \/ \E resource \in Resources, method \in Methods :
              \E arguments \in ArgumentsOf(method) :
                  libCall = [fn |-> "createQueryKeyFactory", pc |-> "called",
                             resource |-> resource, method |-> method,
                             arguments |-> arguments]
       \/ \E scopeId \in ScopeIds, resource \in Resources :
              \E arguments \in ArgumentsOf("custom") :
                  libCall = [fn |-> "createScopedQueryKey", pc |-> "called",
                             scopeId |-> scopeId, resource |-> resource,
                             arguments |-> arguments]
       \/ \E queryKey \in QueryKeys, pattern \in QueryKeys :
              libCall = [fn |-> "matchQueryKey", pc |-> "called",
                         queryKey |-> queryKey, pattern |-> pattern]
       \/ \E resource \in Resources, method \in Methods :
              \E arguments \in ArgumentsOf(method) :
                  libCall = [fn |-> "matchFactoryKey", pc |-> "called",
                             resource |-> resource, method |-> method,
                             arguments |-> arguments]

\* The builder of the factory returns.
CreateQueryKeyFactory ==
    /\ libCall.fn = "createQueryKeyFactory"
    /\ libCall.pc = "called"
    /\ libCall' =
           [fn |-> libCall.fn, pc |-> "returned",
            resource |-> libCall.resource, method |-> libCall.method,
            arguments |-> libCall.arguments,
            outcome |-> createQueryKeyFactory(libCall.resource, libCall.method,
                                              libCall.arguments)]
    /\ UNCHANGED hookVars

CreateScopedQueryKey ==
    /\ libCall.fn = "createScopedQueryKey"
    /\ libCall.pc = "called"
    /\ libCall' =
           [fn |-> libCall.fn, pc |-> "returned",
            scopeId |-> libCall.scopeId, resource |-> libCall.resource,
            arguments |-> libCall.arguments,
            outcome |-> createScopedQueryKey(libCall.scopeId, libCall.resource,
                                             libCall.arguments)]
    /\ UNCHANGED hookVars

MatchQueryKey ==
    /\ libCall.fn = "matchQueryKey"
    /\ libCall.pc = "called"
    /\ libCall' =
           [fn |-> libCall.fn, pc |-> "returned",
            queryKey |-> libCall.queryKey, pattern |-> libCall.pattern,
            result |-> matchQueryKey(libCall.queryKey, libCall.pattern)]
    /\ UNCHANGED hookVars

\* A key built by a method of the factory is matched against the patterns
\* all(), lists() and details() of the same factory.
MatchFactoryKey ==
    /\ libCall.fn = "matchFactoryKey"
    /\ libCall.pc = "called"
    /\ LET key == createQueryKeyFactory(libCall.resource, libCall.method,
                                        libCall.arguments).key
           pattern(method) ==
               createQueryKeyFactory(libCall.resource, method, <<>>).key
       IN  libCall' =
               [fn |-> libCall.fn, pc |-> "returned",
                resource |-> libCall.resource, method |-> libCall.method,
                arguments |-> libCall.arguments,
                key |-> key,
                all |-> matchQueryKey(key, pattern("all")),
                lists |-> matchQueryKey(key, pattern("lists")),
                details |-> matchQueryKey(key, pattern("details"))]
    /\ UNCHANGED hookVars

KeyNext ==
    \/ CreateQueryKeyFactory
    \/ CreateScopedQueryKey
    \/ MatchQueryKey
    \/ MatchFactoryKey

KeySpec == KeyInit /\ [][KeyNext]_vars

\* ------------------------------------------------------------- query key
\*                                                                 properties
Matched == libCall.fn = "matchQueryKey" /\ libCall.pc = "returned"
Built == libCall.fn = "createQueryKeyFactory" /\ libCall.pc = "returned"
Scoped == libCall.fn = "createScopedQueryKey" /\ libCall.pc = "returned"

\* Structural equality of two segments: the same type and the same value or
\* attributes, whichever objects hold them.
DeepEqual(a, b) == a.type = b.type /\ a.val = b.val

\* C17: matchQueryKey is true exactly when the pattern is no longer than the
\* key and every pattern position holds undefined or a value deep-equal to the
\* key's segment, so that two filter records built separately with equal
\* attributes match.
MatchesIffDeepEqual ==
    Matched
    => LET queryKey == libCall.queryKey
           pattern == libCall.pattern
       IN  libCall.result
           <=> /\ Len(pattern) <= Len(queryKey)
               /\ \A index \in 1..Len(pattern) :
                     \/ pattern[index] = undefinedSegment
                     \/ DeepEqual(queryKey[index], pattern[index])

\* C18: a key matches itself, the empty pattern and each of its proper
\* prefixes, and matches no pattern longer than itself.
PrefixMatching ==
    Matched
    => LET k == libCall.queryKey
           p == libCall.pattern
       IN  /\ p = k => libCall.result
           /\ p = <<>> => libCall.result
           /\ (Len(p) < Len(k) /\ p = SubSeq(k, 1, Len(p)))
              => libCall.result
           /\ Len(p) > Len(k) => ~libCall.result

\* C19 as stated: building a key with an empty resource name fails with
\* InvalidKeyError and produces no key.
EmptyResourceFails ==
    (Built /\ libCall.resource = "")
    => libCall.outcome = Throws("InvalidKeyError")

\* C19, amended: building a key with an empty resource name does not fail; the
\* builder returns its key with the empty string as the first segment.
EmptyResourceBuildsKey ==
    (Built /\ libCall.resource = "")
    => /\ libCall.outcome.threw = "none"
       /\ Len(libCall.outcome.key) >= 1
       /\ libCall.outcome.key[1] = String("")

\* detail(...) of the factory of the empty resource returned a key of three
\* segments.
EmptyResourceBuildsKeyWitness ==
    /\ Built
    /\ libCall.resource = ""
    /\ libCall.method = "detail"
    /\ libCall.outcome =
           Returns(<<String(""), String("detail"), String("123")>>)

\* The key createScopedQueryKey is to return, after a given first segment.
ScopedKeyWith(literal) ==
    <<String(literal), String(libCall.scopeId),
      String(libCall.resource)>> \o libCall.arguments

\* C20 as stated: the scoped key is "scope", scopeId, resource and the extra
\* segments in order.
ScopedKeyStartsWithScope ==
    Scoped => libCall.outcome = Returns(ScopedKeyWith("scope"))

\* C20, amended: the scoped key is "user", scopeId, resource and the extra
\* segments in order.
ScopedKeyStartsWithUser ==
    Scoped => libCall.outcome = Returns(ScopedKeyWith("user"))

\* A scoped key with two extra segments was built.
ScopedKeyStartsWithUserWitness ==
    /\ Scoped
    /\ libCall.outcome =
           Returns(<<String("user"), String("user123"), String("posts"),
                     String("stats"), Number("123")>>)


\* ------------------------------------------------------------- cache
\*                                                        strategies, client
\* getCacheStrategy(strategy) and createQueryClient(options).

\* A boolean as a value of an option, beside Num and undefinedOperand.
Bool(b) == [type |-> "boolean", n |-> IF b THEN 1 ELSE 0]

\* The constants of CacheDefaults.ts, in milliseconds.  DEFAULT_STALE_TIME
\* has PERMANENT: Infinity as well, which no strategy and no default uses.
TIME_MS ==
    [SECOND |-> 1000, MINUTE |-> 60 * 1000, HOUR |-> 60 * 60 * 1000,
     DAY |-> 24 * 60 * 60 * 1000, WEEK |-> 7 * 24 * 60 * 60 * 1000]
DEFAULT_STALE_TIME ==
    [REALTIME |-> 0, VERY_SHORT |-> TIME_MS.MINUTE,
     SHORT |-> 5 * TIME_MS.MINUTE, MEDIUM |-> 30 * TIME_MS.MINUTE,
     LONG |-> 2 * TIME_MS.HOUR, VERY_LONG |-> TIME_MS.DAY]
DEFAULT_GC_TIME ==
    [VERY_SHORT |-> 5 * TIME_MS.MINUTE, SHORT |-> 30 * TIME_MS.MINUTE,
     MEDIUM |-> 2 * TIME_MS.HOUR, LONG |-> TIME_MS.DAY,
     VERY_LONG |-> 7 * TIME_MS.DAY]
DEFAULT_RETRY ==
    [NONE |-> Bool(FALSE), MINIMAL |-> Num(1), STANDARD |-> Num(3),
     AGGRESSIVE |-> Num(5)]

\* A cache configuration; refetchOnMount is true, false or 'always'.
CacheConfig(staleTime, gcTime, refetchOnMount, refetchOnWindowFocus, refetchOnReconnect, retry) ==
    [staleTime |-> Num(staleTime), gcTime |-> Num(gcTime),
     refetchOnMount |-> refetchOnMount,
     refetchOnWindowFocus |-> Bool(refetchOnWindowFocus),
     refetchOnReconnect |-> Bool(refetchOnReconnect), retry |-> retry]

\* The registry: an object with one own property for each strategy type.
CacheStrategies ==
    [REALTIME |->
        CacheConfig(DEFAULT_STALE_TIME.REALTIME, DEFAULT_GC_TIME.VERY_SHORT,
                    "always", TRUE, TRUE, DEFAULT_RETRY.MINIMAL),
     USER_DATA |->
        CacheConfig(DEFAULT_STALE_TIME.MEDIUM, DEFAULT_GC_TIME.LONG,
                    "false", FALSE, TRUE, DEFAULT_RETRY.STANDARD),
     MASTER_DATA |->
        CacheConfig(DEFAULT_STALE_TIME.VERY_LONG, DEFAULT_GC_TIME.VERY_LONG,
                    "false", FALSE, FALSE, DEFAULT_RETRY.STANDARD),
     PUBLIC_DATA |->
        CacheConfig(DEFAULT_STALE_TIME.MEDIUM, DEFAULT_GC_TIME.LONG,
                    "false", FALSE, TRUE, DEFAULT_RETRY.STANDARD),
     CUSTOM |->
        CacheConfig(DEFAULT_STALE_TIME.SHORT, DEFAULT_GC_TIME.MEDIUM,
                    "false", FALSE, TRUE, DEFAULT_RETRY.STANDARD)]

\* Names every object inherits from Object.prototype (two of them).
ObjectPrototype == {"constructor", "toString"}

\* The strategies getCacheStrategy is called with: the registered ones, a
\* name that is no property, a registered name in lower case, and an
\* inherited name.
Classifications ==
    DOMAIN CacheStrategies \cup {"UNKNOWN", "realtime", "constructor"}

\* What a property read object[name] gives.
OwnProperty(value) == [type |-> "CacheConfig", value |-> value]
InheritedProperty(name) == [type |-> "function", name |-> name]
NoProperty == [type |-> "undefined"]

\* What a call of getCacheStrategy gives: the value it returns, or the error
\* it throws.
ReturnsValue(value) == [threw |-> "none", value |-> value]
ThrowsError(err) == [threw |-> err, value |-> NoProperty]

\* Mutant: a strategy that is not registered is refused.
getCacheStrategyChecked(strategy) ==
    IF strategy \in DOMAIN CacheStrategies
    THEN ReturnsValue(OwnProperty(CacheStrategies[strategy]))
    ELSE ThrowsError("UnknownStrategyError")

\* getCacheStrategy(strategy): "return CacheStrategies[strategy]".
getCacheStrategy(strategy) ==
    IF strategy \in DOMAIN CacheStrategies
    THEN ReturnsValue(OwnProperty(CacheStrategies[strategy]))
    ELSE IF strategy \in ObjectPrototype
    THEN ReturnsValue(InheritedProperty(strategy))
    ELSE ReturnsValue(NoProperty)

\* Mutant: the default replaces every falsy value (value || default).
DefaultIfFalsy(value, default) ==
    IF value \in {undefinedOperand, Num(0), Bool(FALSE)} THEN default
    ELSE value

\* "{ name = default } = options": the default stands in for undefined only.
Default(value, default) ==
    IF value = undefinedOperand THEN default ELSE value

\* createQueryClient(options): the defaultOptions the QueryClient is built
\* with; logsErrors says whether the mutations' onError writes to the console.
createQueryClient(options, dev) ==
    LET defaultStaleTime ==
            Default(options.defaultStaleTime, Num(DEFAULT_STALE_TIME.SHORT))
        defaultGcTime ==
            Default(options.defaultGcTime, Num(DEFAULT_GC_TIME.LONG))
        defaultRetry == Default(options.defaultRetry, DEFAULT_RETRY.STANDARD)
        enableDevLogging == Default(options.enableDevLogging, Bool(dev))
    IN  [queries |->
            [staleTime |-> defaultStaleTime,
             gcTime |-> defaultGcTime,
             retry |-> defaultRetry,
             refetchOnWindowFocus |-> Bool(FALSE),
             refetchOnMount |-> Bool(FALSE),
             refetchOnReconnect |-> Bool(TRUE)],
         mutations |->
            [retry |-> DEFAULT_RETRY.MINIMAL,
             logsErrors |-> enableDevLogging]]

\* The options createQueryClient is called with: each one left out, or given,
\* falsy values among those given.
QueryClientFactoryOptions ==
    [defaultStaleTime : {undefinedOperand, Num(0), Num(TIME_MS.MINUTE)},
     defaultGcTime : {undefinedOperand, Num(0), Num(TIME_MS.HOUR)},
     defaultRetry : {undefinedOperand, Bool(FALSE), Bool(TRUE), Num(0),
                     Num(5)},
     enableDevLogging : {undefinedOperand, Bool(FALSE), Bool(TRUE)}]

ConfigInit ==
    /\ HookInit
    /\ \/ \E strategy \in Classifications :
              libCall = [fn |-> "getCacheStrategy", pc |-> "called",
                         strategy |-> strategy]
       \/ \E options \in QueryClientFactoryOptions, dev \in BOOLEAN :
              libCall = [fn |-> "createQueryClient", pc |-> "called",
                         options |-> options, dev |-> dev]

GetCacheStrategy ==
    /\ libCall.fn = "getCacheStrategy"
    /\ libCall.pc = "called"
    /\ libCall' = [fn |-> libCall.fn, pc |-> "returned",
                   strategy |-> libCall.strategy,
                   outcome |-> getCacheStrategy(libCall.strategy)]
    /\ UNCHANGED hookVars

CreateQueryClient ==
    /\ libCall.fn = "createQueryClient"
    /\ libCall.pc = "called"
    /\ libCall' = [fn |-> libCall.fn, pc |-> "returned",
                   options |-> libCall.options, dev |-> libCall.dev,
                   defaultOptions |-> createQueryClient(libCall.options,
                                                        libCall.dev)]
    /\ UNCHANGED hookVars

ConfigNext ==
    \/ GetCacheStrategy
    \/ CreateQueryClient

ConfigSpec == ConfigInit /\ [][ConfigNext]_vars

\* ------------------------------------------------------------- cache
\*                                             strategies, client: properties
Resolved == libCall.fn = "getCacheStrategy" /\ libCall.pc = "returned"
ClientCreated == libCall.fn = "createQueryClient" /\ libCall.pc = "returned"
Registered(strategy) ==
    strategy \in {"REALTIME", "USER_DATA", "MASTER_DATA", "PUBLIC_DATA",
                  "CUSTOM"}

\* C21 as stated: getCacheStrategy fails with UnknownStrategyError for every
\* strategy that is not registered, and never returns an absent strategy.
UnknownStrategyFails ==
    (Resolved /\ ~Registered(libCall.strategy))
    => libCall.outcome.threw = "UnknownStrategyError"

\* C21, amended: getCacheStrategy never fails; for a strategy that is not
\* registered it returns what the property read gives, which is no cache
\* configuration: undefined, or the member of Object.prototype of that name.
UnknownStrategyReturnsUndefined ==
    Resolved
    => /\ libCall.outcome.threw = "none"
       /\ Registered(libCall.strategy)
          <=> libCall.outcome.value.type = "CacheConfig"
       /\ (~Registered(libCall.strategy)
           /\ libCall.strategy \notin ObjectPrototype)
          => libCall.outcome.value = NoProperty

\* getCacheStrategy('UNKNOWN') has returned undefined.
UnknownStrategyReturnsUndefinedWitness ==
    /\ Resolved
    /\ libCall.strategy = "UNKNOWN"
    /\ libCall.outcome = ReturnsValue(NoProperty)

\* The value an option has when given, the default otherwise.
Overridden(option, default) ==
    IF option # undefinedOperand THEN option ELSE default

\* C22: the queries' default options are staleTime 5 minutes, gcTime 24 hours,
\* retry 3, refetchOnWindowFocus false, refetchOnMount false and
\* refetchOnReconnect true, each option the caller gave replacing its own
\* field and no other.
DefaultsWithOverrides ==
    ClientCreated
    => libCall.defaultOptions.queries =
           [staleTime |-> Overridden(libCall.options.defaultStaleTime,
                                     Num(300000)),
            gcTime |-> Overridden(libCall.options.defaultGcTime,
                                  Num(86400000)),
            retry |-> Overridden(libCall.options.defaultRetry, Num(3)),
            refetchOnWindowFocus |-> Bool(FALSE),
            refetchOnMount |-> Bool(FALSE),
            refetchOnReconnect |-> Bool(TRUE)]

\* A client was created with staleTime 0 and retry false given and gcTime
\* left out: the two falsy overrides are kept and gcTime is 24 hours.
DefaultsWithOverridesWitness ==
    /\ ClientCreated
    /\ libCall.options.defaultStaleTime = Num(0)
    /\ libCall.options.defaultRetry = Bool(FALSE)
    /\ libCall.options.defaultGcTime = undefinedOperand
    /\ libCall.defaultOptions.queries.staleTime = Num(0)
    /\ libCall.defaultOptions.queries.retry = Bool(FALSE)
    /\ libCall.defaultOptions.queries.gcTime = Num(86400000)


\* ------------------------------------------------------------- retry helpers
\* createConditionalRetry, createQuotaAwareRetry, and an operation the engine
\* retries under the function they build.
MaxFailureCount == 3
LargestMaxRetries == 2

FailureCounts == 0..MaxFailureCount
MaxRetries == {undefinedOperand} \cup {Num(n) : n \in 0..LargestMaxRetries}
RetryErrors == {"NetworkError", "QuotaError"}

\* An ErrorChecker, as the set of the errors it holds for.
ErrorCheckers == SUBSET RetryErrors

\* Mutant: the comparison is not strict.
LessOrEqual(a, b) ==
    IF a.type = "number" /\ b.type = "number" THEN a.n <= b.n ELSE FALSE

\* a < b: false whenever an operand is NaN.
LessThan(a, b) ==
    IF a.type = "number" /\ b.type = "number" THEN a.n < b.n ELSE FALSE

\* Mutant: the error is not looked at.
createConditionalRetryCountOnly(shouldNotRetry, maxRetries, failureCount, err) ==
    LessThan(Num(failureCount), Default(maxRetries, Num(1)))

\* createConditionalRetry(shouldNotRetry, maxRetries)(failureCount, error).
createConditionalRetry(shouldNotRetry, maxRetries, failureCount, err) ==
    IF err \in shouldNotRetry THEN FALSE
    ELSE LessThan(Num(failureCount), Default(maxRetries, Num(1)))

\* createQuotaAwareRetry(isQuotaError, maxRetries)(failureCount, error).
createQuotaAwareRetry(isQuotaError, maxRetries, failureCount, err) ==
    createConditionalRetry(isQuotaError, Default(maxRetries, Num(1)),
                           failureCount, err)

\* The engine runs the operation at most this many times before the model
\* stops following it: more than any retry function here allows.
MaxRuns == LargestMaxRetries + 2

RetryInit ==
    /\ HookInit
    /\ \/ \E fn \in {"createConditionalRetry", "createQuotaAwareRetry"},
             shouldNotRetry \in ErrorCheckers, maxRetries \in MaxRetries,
             failureCount \in FailureCounts, err \in RetryErrors :
              libCall = [fn |-> fn, pc |-> "called",
                         shouldNotRetry |-> shouldNotRetry,
                         maxRetries |-> maxRetries,
                         failureCount |-> failureCount, error |-> err]
       \/ \E shouldNotRetry \in ErrorCheckers, maxRetries \in MaxRetries :
              libCall = [fn |-> "retryer", pc |-> "running",
                         shouldNotRetry |-> shouldNotRetry,
                         maxRetries |-> maxRetries,
                         failureCount |-> 0, errors |-> <<>>]

\* The function createConditionalRetry built is called and returns.
CreateConditionalRetry ==
    /\ libCall.fn = "createConditionalRetry"
    /\ libCall.pc = "called"
    /\ libCall' = [libCall EXCEPT !.pc = "returned"] @@
                  [result |-> createConditionalRetry(
                                  libCall.shouldNotRetry, libCall.maxRetries,
                                  libCall.failureCount, libCall.error)]
    /\ UNCHANGED hookVars

\* The function createQuotaAwareRetry built is called and returns.
CreateQuotaAwareRetry ==
    /\ libCall.fn = "createQuotaAwareRetry"
    /\ libCall.pc = "called"
    /\ libCall' = [libCall EXCEPT !.pc = "returned"] @@
                  [result |-> createQuotaAwareRetry(
                                  libCall.shouldNotRetry, libCall.maxRetries,
                                  libCall.failureCount, libCall.error)]
    /\ UNCHANGED hookVars

\* A run of the operation succeeds.
RunSucceeds ==
    /\ libCall.fn = "retryer"
    /\ libCall.pc = "running"
    /\ libCall' = [libCall EXCEPT !.pc = "success"]
    /\ UNCHANGED hookVars

\* A run of the operation fails with err.
RunFails(err) ==
    /\ libCall.fn = "retryer"
    /\ libCall.pc = "running"
    /\ Len(libCall.errors) < MaxRuns
    /\ libCall' = [libCall EXCEPT !.pc = "failed",
                                  !.errors = Append(@, err)]
    /\ UNCHANGED hookVars

\* The engine asks the retry function, with the number of failures before
\* this one and the error: it counts the failure and runs the operation again,
\* or gives up with the error.
RetryOrReject ==
    /\ libCall.fn = "retryer"
    /\ libCall.pc = "failed"
    /\ IF createConditionalRetry(libCall.shouldNotRetry, libCall.maxRetries,
                                 libCall.failureCount,
                                 libCall.errors[Len(libCall.errors)])
       THEN libCall' = [libCall EXCEPT !.pc = "running",
                                       !.failureCount = @ + 1]
       ELSE libCall' = [libCall EXCEPT !.pc = "error"]
    /\ UNCHANGED hookVars

RunSettles == RunSucceeds \/ \E err \in RetryErrors : RunFails(err)

RetryNext ==
    \/ CreateConditionalRetry
    \/ CreateQuotaAwareRetry
    \/ RunSucceeds
    \/ \E err \in RetryErrors : RunFails(err)
    \/ RetryOrReject

RetrySpec == RetryInit /\ [][RetryNext]_vars

\* Every run of the operation settles, and the engine handles every failure.
RetryFairSpec ==
    /\ RetryInit
    /\ [][RetryNext]_vars
    /\ WF_vars(RunSettles)
    /\ WF_vars(RetryOrReject)

\* ------------------------------------------------------------- retry
\*                                                        helpers: properties
RetryReturned ==
    /\ libCall.fn \in {"createConditionalRetry", "createQuotaAwareRetry"}
    /\ libCall.pc = "returned"
Retried == libCall.fn = "retryer"
MaxRetriesOf(c) == IF c.maxRetries = undefinedOperand THEN 1
                   ELSE c.maxRetries.n

\* C23: the retry function returns false whenever shouldNotRetry holds for the
\* error, whatever failureCount is, and otherwise true exactly when
\* failureCount < maxRetries (1 when maxRetries is left out); the function of
\* createQuotaAwareRetry does the same.
ConditionalRetryDecision ==
    RetryReturned
    => libCall.result =
           IF libCall.error \in libCall.shouldNotRetry THEN FALSE
           ELSE libCall.failureCount < MaxRetriesOf(libCall)

\* The function returned true for failureCount 1 and maxRetries 2, and false
\* for failureCount 0 and an error shouldNotRetry holds for.
ConditionalRetryDecisionWitness ==
    /\ RetryReturned
    /\ \/ /\ libCall.failureCount = 1
          /\ libCall.maxRetries = Num(2)
          /\ libCall.error \notin libCall.shouldNotRetry
          /\ libCall.result = TRUE
       \/ /\ libCall.failureCount = 0
          /\ libCall.maxRetries = Num(2)
          /\ libCall.error \in libCall.shouldNotRetry
          /\ libCall.result = FALSE

\* The operation was run again at most maxRetries times.
RetriesBounded ==
    Retried => /\ libCall.failureCount <= MaxRetriesOf(libCall)
               /\ Len(libCall.errors) <= MaxRetriesOf(libCall) + 1

\* No run follows a failure with an error shouldNotRetry holds for.
StopsAtShouldNotRetry ==
    Retried
    => \A i \in 1..Len(libCall.errors) :
           libCall.errors[i] \in libCall.shouldNotRetry
           => /\ i = Len(libCall.errors)
              /\ libCall.pc \in {"failed", "error"}

\* C24: an operation retried under createConditionalRetry is run again at
\* most maxRetries times and not at all after an error shouldNotRetry holds
\* for, and it settles: an operation no run of which succeeds ends in the
\* error state.
RetriedOperationTerminates ==
    /\ [](RetriesBounded /\ StopsAtShouldNotRetry)
    /\ Retried ~> (libCall.pc \in {"success", "error"})
    /\ (Retried /\ [](libCall.pc # "success")) => <>(libCall.pc = "error")

\* The operation failed three times with an error that may be retried, under
\* maxRetries 2, and ended in the error state after two retries.
RetriedOperationTerminatesWitness ==
    /\ Retried
    /\ libCall.pc = "error"
    /\ libCall.maxRetries = Num(2)
    /\ libCall.failureCount = 2
    /\ Len(libCall.errors) = 3
    /\ \A i \in 1..3 : libCall.errors[i] \notin libCall.shouldNotRetry


\* ------------------------------------------------------------- offset
\*                                                                 pagination
\* useOffsetPagination: the page parameters the hook hands to the engine, and
\* the pages a server answers with.
MaxTotal == 3
MaxLimit == 2
MaxPages == 5

\* a + b: NaN unless both operands are numbers.
Plus(a, b) ==
    IF a.type = "number" /\ b.type = "number" THEN Num(a.n + b.n) ELSE NaN

\* The limit option: left out, or given.
Limits == {undefinedOperand} \cup {Num(n) : n \in 1..MaxLimit}

OffsetPageParam(offset, limit) == [offset |-> offset, limit |-> limit]

\* "initialPageParam: { offset: 0, limit }", limit being 20 when left out.
initialPageParam(limit) == OffsetPageParam(Num(0), Default(limit, Num(20)))

\* Mutant: a next page is asked for when nextOffset equals total as well.
getNextPageParamInclusive(lastPage, limit) ==
    LET nextOffset == Plus(lastPage.offset, lastPage.limit)
    IN  IF LessOrEqual(nextOffset, lastPage.total)
        THEN OffsetPageParam(nextOffset, Default(limit, Num(20)))
        ELSE undefinedOperand

\* getNextPageParam(lastPage), limit being the hook's option.
getNextPageParam(lastPage, limit) ==
    LET nextOffset == Plus(lastPage.offset, lastPage.limit)
    IN  IF LessThan(nextOffset, lastPage.total)
        THEN OffsetPageParam(nextOffset, Default(limit, Num(20)))
        ELSE undefinedOperand

\* The pages a server may answer a request with: the requested offset, 0 or
\* none; any limit, the requested one included; any total.
OffsetPaginatedResponses(pageParam) ==
    [offset : {pageParam.offset, Num(0), undefinedOperand},
     limit : {Num(n) : n \in 0..MaxLimit} \cup {pageParam.limit},
     total : {Num(n) : n \in 0..MaxTotal}]

NoPage == [offset |-> undefinedOperand, limit |-> undefinedOperand,
           total |-> undefinedOperand]

\* The hook is mounted and the engine asks for the first page.  requests are
\* the page parameters asked for so far; echoed says that every page so far
\* had the requested offset, a limit of at least 1 and the first page's total.
PaginationInit ==
    /\ HookInit
    /\ \E limit \in Limits :
           libCall = [fn |-> "useOffsetPagination", pc |-> "fetching",
                      limit |-> limit,
                      requests |-> <<initialPageParam(limit)>>,
                      lastPage |-> NoPage, firstPage |-> NoPage,
                      echoed |-> TRUE]

\* queryFn answers the request with a page.
QueryFn(page) ==
    /\ libCall.fn = "useOffsetPagination"
    /\ libCall.pc = "fetching"
    /\ LET pageParam == libCall.requests[Len(libCall.requests)]
           firstPage == IF Len(libCall.requests) = 1 THEN page
                        ELSE libCall.firstPage
       IN  /\ page \in OffsetPaginatedResponses(pageParam)
           /\ libCall' = [libCall EXCEPT
                  !.pc = "fetched",
                  !.lastPage = page,
                  !.firstPage = firstPage,
                  !.echoed = /\ @
                             /\ page.offset = pageParam.offset
                             /\ page.limit.n >= 1
                             /\ page.total = firstPage.total]
    /\ UNCHANGED hookVars

\* fetchNextPage(): getNextPageParam gave a page parameter, which is asked for.
FetchNextPage ==
    /\ libCall.fn = "useOffsetPagination"
    /\ libCall.pc = "fetched"
    /\ Len(libCall.requests) < MaxPages
    /\ getNextPageParam(libCall.lastPage, libCall.limit) # undefinedOperand
    /\ libCall' = [libCall EXCEPT
           !.pc = "fetching",
           !.requests = Append(@, getNextPageParam(libCall.lastPage,
                                                   libCall.limit))]
    /\ UNCHANGED hookVars

\* getNextPageParam gave undefined: hasNextPage is false.
NoNextPage ==
    /\ libCall.fn = "useOffsetPagination"
    /\ libCall.pc = "fetched"
    /\ getNextPageParam(libCall.lastPage, libCall.limit) = undefinedOperand
    /\ libCall' = [libCall EXCEPT !.pc = "done"]
    /\ UNCHANGED hookVars

PaginationNext ==
    \/ \E offset \in {Num(n) : n \in 0..MaxTotal} \cup {undefinedOperand},
          limit \in {Num(n) : n \in 0..MaxLimit} \cup {Num(20)},
          total \in {Num(n) : n \in 0..MaxTotal} :
           QueryFn([offset |-> offset, limit |-> limit, total |-> total])
    \/ FetchNextPage
    \/ NoNextPage

PaginationSpec == PaginationInit /\ [][PaginationNext]_vars

\* ------------------------------------------------------------- offset
\*                                                     pagination: properties
Paginated == libCall.fn = "useOffsetPagination"
LimitOf(c) == IF c.limit = undefinedOperand THEN 20 ELSE c.limit.n

\* p.offset + p.limit < p.total, false when p.offset is no number.
NextBelowTotal(p) ==
    /\ p.offset.type = "number"
    /\ p.offset.n + p.limit.n < p.total.n

Larger(a, b) == IF a > b THEN a ELSE b

\* C25: offset pagination starts at {offset: 0, limit}; after a page p it asks
\* for {offset: p.offset + p.limit, limit} exactly when
\* p.offset + p.limit < p.total, and for no page otherwise; while the server
\* echoes the requested offset and a limit of at least 1 and total is
\* constant, the requested offsets strictly increase and at most
\* max(1, total) pages are asked for.
OffsetPaginationAdvances ==
    Paginated
    => /\ libCall.requests[1] =
              [offset |-> Num(0), limit |-> Num(LimitOf(libCall))]
       /\ (libCall.pc = "fetching" /\ Len(libCall.requests) > 1)
          => /\ NextBelowTotal(libCall.lastPage)
             /\ libCall.requests[Len(libCall.requests)] =
                    [offset |-> Num(libCall.lastPage.offset.n
                                    + libCall.lastPage.limit.n),
                     limit |-> Num(LimitOf(libCall))]
       /\ libCall.pc = "done" => ~NextBelowTotal(libCall.lastPage)
       /\ (libCall.pc = "fetched" /\ ~NextBelowTotal(libCall.lastPage))
          => ~ENABLED FetchNextPage
       /\ libCall.echoed
          => /\ \A i, j \in 1..Len(libCall.requests) :
                    i < j => libCall.requests[i].offset.n
                             < libCall.requests[j].offset.n
             /\ libCall.pc # "fetching"
                => Len(libCall.requests)
                   <= Larger(1, libCall.firstPage.total.n)

\* Three pages of limit 1 were asked for at offsets 0, 1 and 2 from a server
\* that echoes them with total 3, and paging has ended.
OffsetPaginationAdvancesWitness ==
    /\ Paginated
    /\ libCall.pc = "done"
    /\ libCall.echoed
    /\ libCall.lastPage.total = Num(3)
    /\ Len(libCall.requests) = 3
    /\ \A i \in 1..3 : libCall.requests[i].offset = Num(i - 1)


\* ------------------------------------------------------------- onMutate
\*                                                                     fails
\* The lifecycle with one more way for onMutate to fail: the promise of
\* cancelQueries rejects, so the await throws before the snapshot is read.
OnMutateCancelRejects(m) ==
    /\ pc[m] = "cancelling"
    /\ pc' = [pc EXCEPT ![m] = "failed"]
    /\ error' = [error EXCEPT ![m] = TRUE]
    /\ last' = HookStep("OnMutateCancelRejects", m, config[m].queryKey)
    /\ UNCHANGED libCall
    /\ UNCHANGED <<queryData, fetching, isInvalidated, config, context, log,
                   seenByBegin, fetches>>

CancelRejectsNext ==
    \/ Next
    \/ \E m \in Mutations : OnMutateCancelRejects(m)

CancelRejectsSpec == Init /\ [][CancelRejectsNext]_vars

\* ------------------------------------------------------------- properties
\*                                                     of the hook, continued
\* C26: a successful mutation with invalidateOnSuccess false issues no
\* invalidation and no rollback, and no step it takes after onMutate changes
\* the cached data or the invalidation marks: its settle leaves the value
\* cached at its key in place.
NoInvalidationKeepsOptimistic ==
    \A m \in Mutations :
        (pc[m] # "idle" /\ ~config[m].invalidateOnSuccess /\ ~error[m])
        => /\ ~InLog(m, "invalidateQueries")
           /\ ~InLog(m, "rollback")
           /\ (last.actor = m /\ last.pc \in {"begun", "remote", "succeeded"})
              => /\ queryData = last.queryData
                 /\ isInvalidated = last.isInvalidated

\* A successful mutation with invalidateOnSuccess false has just settled: its
\* optimistic value, different from the snapshot, is still cached and its key
\* is not invalidated.
NoInvalidationKeepsOptimisticWitness ==
    \E m \in Mutations :
        /\ Moved(m, "succeeded", "settled")
        /\ ~config[m].invalidateOnSuccess
        /\ HasSnapshot(m)
        /\ queryData[KeyOf(m)] =
               updater(context[m].previousData, config[m].variables)
        /\ queryData[KeyOf(m)] # context[m].previousData
        /\ ~isInvalidated[KeyOf(m)]
        /\ log[m] = <<"cancelQueries", "getQueryData", "setQueryData",
                      "mutationFn", "success", "onSettled">>

\* onMutate failed: the mutation is past onMutate and no remote write was
\* issued.
BeginFailed(m) ==
    pc[m] \in {"failed", "errored", "settled"} /\ ~InLog(m, "mutationFn")

SnapshotAndWriteAtomic ==
    \A m \in Mutations :
        /\ \A i \in 1..Len(log[m]) :
              log[m][i] = "setQueryData"
              => i > 1 /\ log[m][i - 1] = "getQueryData"
        /\ (last.actor = m /\ last.op = "OnMutateResume")
           => LET cached == last.queryData[KeyOf(m)]
              IN  /\ context[m] = [previousData |-> cached]
                  /\ queryData =
                        IF cached = undefined THEN last.queryData
                        ELSE [last.queryData EXCEPT ![KeyOf(m)] =
                                 updater(cached, config[m].variables)]

\* While m waited for the cancellation, n, started after m on the same key,
\* cached its optimistic value; m has just resumed, taken that value as its
\* snapshot and cached the updater's result on it.
SnapshotAndWriteAtomicWitness ==
    \E m, n \in Mutations :
        /\ m < n
        /\ KeyOf(m) = KeyOf(n)
        /\ Moved(m, "cancelling", "begun")
        /\ pc[n] = "begun"
        /\ HasSnapshot(n)
        /\ context[m].previousData =
               updater(context[n].previousData, config[n].variables)
        /\ context[m].previousData # context[n].previousData
        /\ queryData[KeyOf(m)] =
               updater(context[m].previousData, config[m].variables)


\* ------------------------------------------------------------- callbacks
\* One mutation of the hook as the engine drives its callbacks: mutationFn
\* settles, then the hook's onError (on failure) and the hook's onSettled are
\* called, each of which calls the caller's callback of the same name if the
\* caller supplied one.

\* "onSettled(data, error, variables, context, ...rest)": the arguments are
\* passed on.
OnSettledArguments(data, err, variables, ctx) ==
    [data |-> data, error |-> err, variables |-> variables, context |-> ctx]

\* Mutant: the caller's onSettled is called before the invalidation.
OnSettledBodyCallbackFirst(invalidateOnSuccess, err, hasOnSettled) ==
    (IF hasOnSettled THEN <<"onSettled">> ELSE <<>>)
    \o (IF ShouldInvalidate(invalidateOnSuccess, err)
        THEN <<"invalidateQueries">> ELSE <<>>)

\* The statements onSettled executes, in order: the invalidation on success
\* if invalidateOnSuccess, then the caller's onSettled if there is one.
OnSettledBody(invalidateOnSuccess, err, hasOnSettled) ==
    (IF ShouldInvalidate(invalidateOnSuccess, err)
     THEN <<"invalidateQueries">> ELSE <<>>)
    \o (IF hasOnSettled THEN <<"onSettled">> ELSE <<>>)

\* Runs the statements on the call c: the invalidation marks they leave, and
\* what the caller's onSettled received together with the marks it could
\* observe.
RECURSIVE RunOnSettledBody(_, _)
RunOnSettledBody(statements, c) ==
    IF statements = <<>> THEN c
    ELSE LET statement == Head(statements)
             after ==
                 IF statement = "invalidateQueries"
                 THEN [c EXCEPT !.isInvalidated =
                         invalidateQueries(@, c.queryKey)]
                 ELSE [c EXCEPT !.settled = Append(@,
                         [arguments |-> OnSettledArguments(c.data, c.error,
                                            c.variables, c.context),
                          isInvalidated |-> c.isInvalidated])]
         IN RunOnSettledBody(Tail(statements), after)

\* The error argument of a successful mutation.
NullError == "null"

\* mutationFn has been called: a hook configured with queryKey and
\* invalidateOnSuccess, with or without the caller's callbacks; onMutate
\* returned the context, or threw (no context).  cached keeps the cache of the
\* start (history).
CallbackInit ==
    /\ HookInit
    /\ \E queryKey \in Keys, invalidateOnSuccess \in BOOLEAN,
          hasOnError \in BOOLEAN, hasOnSettled \in BOOLEAN,
          variables \in Deltas, ctx \in Contexts,
          d \in [Keys -> Data \cup {undefined}] :
           libCall = [fn |-> "useMutation", pc |-> "pending",
                      queryKey |-> queryKey,
                      invalidateOnSuccess |-> invalidateOnSuccess,
                      hasOnError |-> hasOnError,
                      hasOnSettled |-> hasOnSettled,
                      variables |-> variables, context |-> ctx,
                      data |-> undefined, error |-> NullError,
                      queryData |-> d, cached |-> d,
                      isInvalidated |-> [k \in Keys |-> FALSE],
                      received |-> <<>>, settled |-> <<>>]

\* mutationFn resolves with data.
MutationFnResolves(data) ==
    /\ libCall.fn = "useMutation"
    /\ libCall.pc = "pending"
    /\ libCall.context # NoContext
    /\ libCall' = [libCall EXCEPT !.pc = "succeeded", !.data = data]
    /\ UNCHANGED hookVars

\* mutationFn rejects with err, or onMutate threw it.
MutationFnRejects(err) ==
    /\ libCall.fn = "useMutation"
    /\ libCall.pc = "pending"
    /\ libCall' = [libCall EXCEPT !.pc = "failed", !.error = err]
    /\ UNCHANGED hookVars

\* The engine calls the hook's onError, which runs to its end.
HookOnError ==
    /\ libCall.fn = "useMutation"
    /\ libCall.pc = "failed"
    /\ libCall' = [RunOnErrorBody(OnErrorBody(libCall.context,
                                              libCall.hasOnError), libCall)
                       EXCEPT !.pc = "errored"]
    /\ UNCHANGED hookVars

\* The engine calls the hook's onSettled, which runs to its end.
HookOnSettled ==
    /\ libCall.fn = "useMutation"
    /\ libCall.pc \in {"succeeded", "errored"}
    /\ libCall' = [RunOnSettledBody(
                       OnSettledBody(libCall.invalidateOnSuccess,
                                     libCall.error # NullError,
                                     libCall.hasOnSettled), libCall)
                       EXCEPT !.pc = "settled"]
    /\ UNCHANGED hookVars

CallbackNext ==
    \/ \E data \in Data : MutationFnResolves(data)
    \/ \E err \in Errors : MutationFnRejects(err)
    \/ HookOnError
    \/ HookOnSettled

CallbackSpec == CallbackInit /\ [][CallbackNext]_vars

\* ------------------------------------------------------------- callbacks:
\*                                                                 properties
Failed == libCall.error # NullError
HasPreviousData(ctx) == ctx # NoContext /\ ctx.previousData # undefined

\* C29: the caller's onError, if supplied, is called exactly once when the
\* mutation fails and never otherwise, with the error, variables and context
\* the hook received and after the rollback write if there is one; the
\* caller's onSettled, if supplied, is called exactly once when the mutation
\* settles, with the data, error, variables and context the hook received
\* and after the invalidation if there is one.
CallerCallbacksPreserved ==
    libCall.fn = "useMutation"
    => /\ Len(libCall.received) =
              IF /\ libCall.hasOnError
                 /\ libCall.pc \in {"errored", "settled"}
                 /\ Failed
              THEN 1 ELSE 0
       /\ Len(libCall.settled) =
              IF libCall.hasOnSettled /\ libCall.pc = "settled" THEN 1 ELSE 0
       /\ \A i \in 1..Len(libCall.received) :
              /\ libCall.received[i].arguments =
                     [error |-> libCall.error,
                      variables |-> libCall.variables,
                      context |-> libCall.context]
              /\ HasPreviousData(libCall.context)
                 => libCall.received[i].queryData[libCall.queryKey]
                        = libCall.context.previousData
       /\ \A i \in 1..Len(libCall.settled) :
              /\ libCall.settled[i].arguments =
                     [data |-> libCall.data, error |-> libCall.error,
                      variables |-> libCall.variables,
                      context |-> libCall.context]
              /\ (libCall.invalidateOnSuccess /\ ~Failed)
                 => libCall.settled[i].isInvalidated[libCall.queryKey]

\* Both callbacks were called once: after a failure with a rollback that
\* changed the cache and no invalidation, or after a success with an
\* invalidation and no rollback.
CallerCallbacksPreservedWitness ==
    /\ libCall.fn = "useMutation"
    /\ libCall.pc = "settled"
    /\ libCall.hasOnSettled
    /\ Len(libCall.settled) = 1
    /\ \/ /\ Failed
          /\ libCall.hasOnError
          /\ Len(libCall.received) = 1
          /\ HasPreviousData(libCall.context)
          /\ libCall.cached[libCall.queryKey] # libCall.context.previousData
          /\ libCall.queryData[libCall.queryKey]
                 = libCall.context.previousData
          /\ ~libCall.isInvalidated[libCall.queryKey]
       \/ /\ ~Failed
          /\ libCall.invalidateOnSuccess
          /\ libCall.settled[1].isInvalidated[libCall.queryKey]
          /\ libCall.queryData = libCall.cached


\* ------------------------------------------------------------- query key
\*                                                      properties, continued
FactoryKeyMatched ==
    libCall.fn = "matchFactoryKey" /\ libCall.pc = "returned"

\* C30: every key of the factory of resource r matches all(); a list key
\* matches lists() and not details(); a detail key matches details() and not
\* lists(); list(filters) is [r, 'list'] without filters and
\* [r, 'list', filters] with them.
KeyHierarchy ==
    FactoryKeyMatched
    => LET r == String(libCall.resource)
       IN  /\ libCall.all
           /\ libCall.method = "list"
              => /\ libCall.lists
                 /\ ~libCall.details
                 /\ libCall.key =
                        IF libCall.arguments = <<>>
                        THEN <<r, String("list")>>
                        ELSE <<r, String("list"), libCall.arguments[1]>>
           /\ libCall.method = "detail"
              => /\ libCall.details
                 /\ ~libCall.lists
                 /\ libCall.key =
                        <<r, String("detail"), libCall.arguments[1]>>

\* A list key with filters matched all() and lists() of its factory and did
\* not match details(), or a detail key whose id is NaN matched all() and
\* details() and did not match lists().
KeyHierarchyWitness ==
    /\ FactoryKeyMatched
    /\ libCall.all
    /\ \/ /\ libCall.key = <<String("posts"), String("list"),
                             Object(1, "status=published")>>
          /\ libCall.lists
          /\ ~libCall.details
       \/ /\ libCall.key = <<String("posts"), String("detail"),
                             Number("NaN")>>
          /\ libCall.details
          /\ ~libCall.lists

=============================================================================
